---- MODULE Spec2Model ----
(***************************************************************************)
(* Model of the NFT pipeline server's request handlers:                    *)
(*   handleCreatePackage  (tools/combined/nft_create_package.ts)           *)
(*   handleUploadToIPFS   (tools/ipfs/nft_upload_to_ipfs.ts)               *)
(*   handleCreateMetadata (tools/ipfs/nft_create_metadata.ts)              *)
(*                                                                         *)
(*   handleGenerateImage  (tools/image/nft_generate_image.ts)              *)
(*   the tool registry and the CallTool request handler (index.ts)         *)
(*                                                                         *)
(* One tool call is followed from its dispatch to its result.  Every       *)
(* action is the code that runs between two awaits; the external services  *)
(* (generation provider, remote image host, file system, storage backend)  *)
(* answer nondeterministically.                                            *)
(*                                                                         *)
(* JavaScript values are tagged records [ty, v]; strings built by          *)
(* concatenation or template literals are sequences of pieces [k, v].      *)
(***************************************************************************)
EXTENDS Naturals, Sequences, FiniteSets, TLC

\* ------------------------------------------------------------ bounds
\* Number of distinct content ids the storage backend may answer with.
NumCids == 2
\* Number of distinct upstream response bodies of a failed HTTP call.
NumBodies == 2
\* Longest tail of a file name base, after its padding, that is slugged.
MaxTail == 3
\* .substring(0, 50): the longest sanitized file name base.
SlugMax == 50

\* ------------------------------------------------------------ values
\* A piece of a string: literal text, or text inside a JSON serialisation.
Lit(s) == [k |-> "lit", v |-> s]

\* A JavaScript primitive: its type and, as a sequence of pieces, its text.
UNDEF == [ty |-> "undefined", v |-> <<>>]
Str(s) == [ty |-> "string", v |-> IF s = "" THEN <<>> ELSE <<Lit(s)>>]
Num(s) == [ty |-> "number", v |-> <<Lit(s)>>]
Bool(b) == [ty |-> "boolean", v |-> IF b THEN <<Lit("true")>> ELSE <<Lit("false")>>]
EmptyArray == [ty |-> "array", v |-> <<>>]
EmptyObject == [ty |-> "object", v |-> <<>>]
\* The string a template literal or a concatenation builds.
Text(pieces) == [ty |-> "string", v |-> pieces]
\* A string given character by character.
Chars(cs) == Text([i \in DOMAIN cs |-> Lit(cs[i])])
\* A URL or a path, cut at every "/" and ".".
Tokens(ts) == Text([i \in DOMAIN ts |-> Lit(ts[i])])

Defined(x) == x.ty # "undefined"

\* Mutant: every defined value counts as present (x !== undefined).
TruthyAsDefined(x) == x.ty # "undefined"

\* JavaScript truthiness: undefined, "", 0 and false are falsy.
Truthy(x) ==
  /\ x.ty # "undefined"
  /\ ~(x.ty = "string" /\ x.v = <<>>)
  /\ ~(x.ty = "number" /\ x.v = <<Lit("0")>>)
  /\ ~(x.ty = "boolean" /\ x.v = <<Lit("false")>>)

\* a || b
Or(a, b) == IF Truthy(a) THEN a ELSE b

\* `${x}` in a template literal: undefined prints as the text "undefined".
Interp(x) == IF x.ty = "undefined" THEN <<Lit("undefined")>> ELSE x.v

\* JSON.stringify(data) of a response body: the serialisation of the data,
\* which is not the data's own text.
JSONstringify(data) == [i \in DOMAIN data.v |-> [k |-> "json", v |-> data.v[i].v]]

\* JSON.parse(JSON.stringify(obj)) of an object literal: the keys whose value
\* is undefined are dropped.
JSONobject(obj) == [key \in {x \in DOMAIN obj : Defined(obj[x])} |-> obj[key]]

\* obj.key: reading a missing key gives undefined.
Get(obj, key) == IF key \in DOMAIN obj THEN obj[key] ELSE UNDEF

NoObject == [key \in {} |-> UNDEF]

\* Whether the text `sub` occurs in the text `msg`.
Contains(msg, sub) ==
  /\ Len(sub) > 0
  /\ Len(sub) <= Len(msg)
  /\ \E i \in 0..(Len(msg) - Len(sub)) : SubSeq(msg, i + 1, i + Len(sub)) = sub

CidNames == <<"QmA", "QmB", "QmC", "QmD">>
Cids == {CidNames[i] : i \in 1..NumCids}
BodyNames == <<"body1", "body2", "body3", "body4">>
Bodies == {BodyNames[i] : i \in 1..NumBodies}

\* HTTP error statuses an upstream may answer with (axios rejects on them).
Statuses == {"401", "403", "404", "500"}

Services == {Str("pinata"), Str("nftStorage"), Str("web3Storage")}

\* An error object: axios sets error.response when the upstream answered.
HttpError(status, data) ==
  [hasResponse |-> TRUE, status |-> status, data |-> data,
   message |-> <<Lit("Request failed with status code "), Lit(status)>>]
Error(message) ==
  [hasResponse |-> FALSE, status |-> "", data |-> UNDEF, message |-> message]
NoError == Error(<<>>)

\* ------------------------------------------------------------ inputs
Prompts == {UNDEF, Str(""), Chars(<<"a", " ", "r", "e", "d", " ", "f", "o", "x">>)}
ImageUrls == {UNDEF, Str(""), Tokens(<<"http:", "/", "/", "x", "/", "fox", ".", "png">>)}
ImagePaths == {UNDEF, Str(""), Tokens(<<"/", "tmp", "/", "fox", ".", "png">>)}
Names == {UNDEF, Str(""), Chars(<<"F", "o", "x", " ", "#", "1">>)}
Descriptions == {UNDEF, Str("desc")}
ServiceArgs == Services \cup {UNDEF, Str("dropbox")}
ApiKeyArgs == {UNDEF, Str("jwt")}
\* Date.now()
Timestamps == {"1700000000000", "1700000000001"}

PackageArgs ==
  [prompt : Prompts, imageUrl : ImageUrls, imagePath : ImagePaths,
   name : Names, description : Descriptions,
   ipfsService : ServiceArgs, ipfsApiKey : ApiKeyArgs]

NoArgs ==
  [prompt |-> UNDEF, imageUrl |-> UNDEF, imagePath |-> UNDEF,
   name |-> UNDEF, description |-> UNDEF,
   ipfsService |-> UNDEF, ipfsApiKey |-> UNDEF]

\* The arguments of a direct upload_to_ipfs call.
UploadToolArgs ==
  [imageUrl : ImageUrls, imagePath : ImagePaths,
   fileName : {UNDEF, Tokens(<<"cat", ".", "png">>)},
   service : ServiceArgs, apiKey : ApiKeyArgs \cup {Str("")}]

\* The arguments of a direct create_metadata call.
MetadataToolArgs ==
  [name : {UNDEF, Chars(<<"F", "o", "x", " ", "#", "1">>)}, description : Descriptions,
   imageHash : {UNDEF, Str(""), Str("QmA")},
   service : ServiceArgs, apiKey : ApiKeyArgs \cup {Str("")}]

\* The arguments of a direct generate_image call.
GenerateToolArgs == [prompt : Prompts]

\* The names a CallTool request may carry: the four registered ones, a name
\* that is not registered, and names of members of Object.prototype.
RegisteredTools ==
  {"nft_pipeline_generate_image", "nft_pipeline_upload_to_ipfs",
   "nft_pipeline_create_metadata", "nft_pipeline_build_complete"}
ToolNames == RegisteredTools \cup {"nft_create_package", "toString", "__proto__"}

\* process.env: the default service selector and the credentials that are set.
Envs ==
  [IPFS_SERVICE : {UNDEF, Str("nftStorage"), Str("dropbox")},
   keys : {{}, {"PINATA_API_KEY"}}]

\* What imageGenerator.generateImage resolves to (ImageGenerationResult), or
\* its rejection.
GenerationOutcomes ==
  [rejected : {FALSE}, success : {TRUE},
   imageUrl : {UNDEF, Tokens(<<"http:", "/", "/", "gen", "/", "img", ".", "png">>),
               Tokens(<<"http:", "/", "/", "gen", "/", "prompt", "/", "img">>)},
   localPath : {UNDEF, Tokens(<<"/", "tmp", "/", "gen", ".", "png">>)},
   prompt : {Str("a red fox, detailed")}, error : {UNDEF}]
  \cup
  [rejected : {FALSE}, success : {FALSE}, imageUrl : {UNDEF}, localPath : {UNDEF},
   prompt : {Str("a red fox, detailed")}, error : {UNDEF, Str("provider down")}]
  \cup
  [rejected : {TRUE}, success : {FALSE}, imageUrl : {UNDEF}, localPath : {UNDEF},
   prompt : {UNDEF}, error : {Str("timeout")}]

\* What an HTTP call resolves or rejects with.  A 2xx answer carries a body
\* whose content id may be a string, empty, missing or not a string, and
\* whose envelope (data.data, data.value) may be missing altogether.
CidValues == {Str(c) : c \in Cids} \cup {UNDEF, Str(""), Num("7")}
OkResponses ==
  [kind : {"ok"}, envelope : {TRUE}, cid : CidValues, error : {NoError}]
  \cup [kind : {"ok"}, envelope : {FALSE}, cid : {UNDEF}, error : {NoError}]
ErrorResponses ==
  {[kind |-> "error", envelope |-> FALSE, cid |-> UNDEF, error |-> HttpError(s, Str(b))] :
     s \in Statuses, b \in Bodies}
  \cup {[kind |-> "error", envelope |-> FALSE, cid |-> UNDEF,
         error |-> Error(<<Lit("Network Error")>>)]}
PostOutcomes == OkResponses \cup ErrorResponses
FetchOutcomes ==
  {[kind |-> "ok", envelope |-> FALSE, cid |-> UNDEF, error |-> NoError]} \cup ErrorResponses

\* ------------------------------------------------------------ state
VARIABLES
  env,              \* process.env, read-only configuration
  pc,               \* where the run stands: idle, an await, done or failed
  tool,             \* the CallTool request: name, handler found, arguments
  args,             \* the request handleCreatePackage was called with
  finalImageUrl,    \* handleCreatePackage's locals
  finalImagePath,
  generatedPrompt,
  fileName,
  up,               \* handleUploadToIPFS's parsed arguments, service, key, file name
  uploadData,       \* JSON.parse of handleUploadToIPFS's result text
  md,               \* handleCreateMetadata's service, key and metadata document
  calls,            \* number of external calls issued so far, per kind
  hist,             \* which stage and which call failed, and the upstream cause
  answered,         \* what the storage backend and the provider answered with
  stored,           \* the blobs the storage backend holds
  outcome,          \* what the run returned or threw
  slug              \* a file name base and its sanitized forms

vars ==
  <<env, pc, tool, args, finalImageUrl, finalImagePath, generatedPrompt, fileName, up,
    uploadData, md, calls, hist, answered, stored, outcome, slug>>

NoCalls ==
  [generate |-> 0, fetch |-> 0, readFile |-> 0, imagePost |-> 0, metadataPost |-> 0]
NoUpload ==
  [imageUrl |-> UNDEF, imagePath |-> UNDEF, fileName |-> UNDEF, service |-> UNDEF,
   apiKey |-> UNDEF]
NoTool == [name |-> "", handler |-> "", args |-> NoObject]
NoSlug == [pc |-> "", input |-> <<>>, once |-> <<>>, twice |-> <<>>]
NoMetadata == [service |-> UNDEF, apiKey |-> UNDEF, metadata |-> NoObject]
NoAnswer == [image |-> UNDEF, metadata |-> UNDEF, prompt |-> UNDEF]
NoHist == [stage |-> "", failedCall |-> "", cause |-> NoError]
Pending ==
  [status |-> "pending", message |-> <<>>, result |-> NoObject, metadata |-> NoObject,
   surfaced |-> <<>>]

Bump(cs, call) == [cs EXCEPT ![call] = @ + 1]

\* ------------------------------------------------------------ schemas
\* z.string().url(): the text parses as a URL; the empty string does not.
IsUrl(x) == x.ty = "string" /\ x.v # <<>>
IsString(x) == x.ty = "string"

\* Mutant: the refinement demands exactly one image source.
PackageSchemaIssuesExactlyOne(a) ==
  LET aborting ==
        (IF IsString(a.name) THEN <<>> ELSE <<Lit("name: Required")>>)
        \o (IF IsString(a.description) THEN <<>> ELSE <<Lit("description: Required")>>)
        \o (IF ~Defined(a.ipfsService) \/ a.ipfsService \in Services
            THEN <<>> ELSE <<Lit("ipfsService: Invalid enum value")>>)
      url == IF ~Defined(a.imageUrl) \/ IsUrl(a.imageUrl)
             THEN <<>> ELSE <<Lit("imageUrl: Invalid url")>>
      given == {f \in {"prompt", "imageUrl", "imagePath"} : Truthy(a[f])}
      refine == IF Cardinality(given) = 1
                THEN <<>> ELSE <<Lit("Must provide either prompt, imageUrl, or imagePath")>>
  IN  IF aborting # <<>> THEN aborting \o url ELSE url \o refine

\* The issues zod reports for a build_complete request.  A missing required
\* string or a value outside an enum aborts the parse, so the refinement is
\* not run; an invalid URL does not abort it.
PackageSchemaIssues(a) ==
  LET aborting ==
        (IF IsString(a.name) THEN <<>> ELSE <<Lit("name: Required")>>)
        \o (IF IsString(a.description) THEN <<>> ELSE <<Lit("description: Required")>>)
        \o (IF ~Defined(a.ipfsService) \/ a.ipfsService \in Services
            THEN <<>> ELSE <<Lit("ipfsService: Invalid enum value")>>)
      url == IF ~Defined(a.imageUrl) \/ IsUrl(a.imageUrl)
             THEN <<>> ELSE <<Lit("imageUrl: Invalid url")>>
      refine == IF Truthy(a.prompt) \/ Truthy(a.imageUrl) \/ Truthy(a.imagePath)
                THEN <<>> ELSE <<Lit("Must provide either prompt, imageUrl, or imagePath")>>
  IN  IF aborting # <<>> THEN aborting \o url ELSE url \o refine

\* The issues zod reports for the arguments of upload_to_ipfs.
UploadSchemaIssues(a) ==
  LET aborting ==
        IF ~Defined(a.service) \/ a.service \in Services
        THEN <<>> ELSE <<Lit("service: Invalid enum value")>>
      url == IF ~Defined(a.imageUrl) \/ IsUrl(a.imageUrl)
             THEN <<>> ELSE <<Lit("imageUrl: Invalid url")>>
      refine == IF Truthy(a.imageUrl) \/ Truthy(a.imagePath)
                THEN <<>> ELSE <<Lit("Either imageUrl or imagePath must be provided")>>
  IN  IF aborting # <<>> THEN aborting \o url ELSE url \o refine

\* The issues zod reports for the arguments of generate_image: the prompt is
\* a required string, and the empty string is one.
GenerateSchemaIssues(a) ==
  IF IsString(a.prompt) THEN <<>> ELSE <<Lit("prompt: Required")>>

\* The issues zod reports for the arguments of create_metadata.
MetadataSchemaIssues(a) ==
  (IF IsString(a.name) THEN <<>> ELSE <<Lit("name: Required")>>)
  \o (IF IsString(a.description) THEN <<>> ELSE <<Lit("description: Required")>>)
  \o (IF IsString(a.imageHash) THEN <<>> ELSE <<Lit("imageHash: Expected string")>>)
  \o (IF ~Defined(a.service) \/ a.service \in Services
      THEN <<>> ELSE <<Lit("service: Invalid enum value")>>)

\* The ZodError that schema.parse throws: its message lists the issues.
ZodError(issues) == Error([i \in DOMAIN issues |-> [k |-> "zod", v |-> issues[i].v]])

\* ------------------------------------------------------------ service, key
\* parsed.service || process.env.IPFS_SERVICE || 'pinata'
ResolveService(service, e) == Or(Or(service, e.IPFS_SERVICE), Str("pinata"))

\* Mutant: every service reads the credential of the first one.
ServiceEnvVarPinataOnly(service) == Str("PINATA_API_KEY")

\* serviceEnvMap[service]
ServiceEnvVar(service) ==
  IF service = Str("pinata") THEN Str("PINATA_API_KEY")
  ELSE IF service = Str("nftStorage") THEN Str("NFT_STORAGE_API_KEY")
  ELSE IF service = Str("web3Storage") THEN Str("WEB3_STORAGE_API_KEY")
  ELSE UNDEF

\* process.env[name]
EnvGet(e, name) ==
  IF Defined(name) /\ name.v[1].v \in e.keys THEN Str("jwt-from-env") ELSE UNDEF

\* parsed.apiKey || process.env[serviceEnvMap[service]] || ''
ResolveApiKey(apiKey, service, e) == Or(Or(apiKey, EnvGet(e, ServiceEnvVar(service))), Str(""))

MissingKeyError(service) ==
  Error(<<Lit("API key/JWT required for ")>> \o Interp(service) \o <<Lit(". Set ")>>
        \o Interp(ServiceEnvVar(service))
        \o <<Lit(" in environment or pass as apiKey parameter.")>>)

\* ------------------------------------------------------------ catch blocks
\* Mutant: a 401 answer is not told apart from any other status.
UploadCatchNo401(error) ==
  IF error.hasResponse
  THEN IF error.status = "403"
       THEN <<Lit("Pinata authentication failed (403): Ensure your JWT has \"Files\" Write permission enabled. Response: ")>>
            \o JSONstringify(error.data)
       ELSE <<Lit("IPFS upload failed ("), Lit(error.status), Lit("): ")>>
            \o JSONstringify(error.data)
  ELSE <<Lit("IPFS upload failed: ")>> \o error.message

\* handleUploadToIPFS's catch: the message of the error it rethrows.
UploadCatch(error) ==
  IF error.hasResponse
  THEN IF error.status = "403"
       THEN <<Lit("Pinata authentication failed (403): Ensure your JWT has \"Files\" Write permission enabled. Response: ")>>
            \o JSONstringify(error.data)
       ELSE IF error.status = "401"
       THEN <<Lit("Invalid Pinata JWT (401): Check that your JWT is correct and not expired. Response: ")>>
            \o JSONstringify(error.data)
       ELSE <<Lit("IPFS upload failed ("), Lit(error.status), Lit("): ")>>
            \o JSONstringify(error.data)
  ELSE <<Lit("IPFS upload failed: ")>> \o error.message

\* handleCreateMetadata's catch: the message of the error it rethrows.
MetadataCatch(error) ==
  IF error.hasResponse
  THEN IF error.status = "403"
       THEN <<Lit("Pinata authentication failed (403): Ensure your JWT has \"Files\" Write permission enabled. Response: ")>>
            \o JSONstringify(error.data)
       ELSE IF error.status = "401"
       THEN <<Lit("Invalid Pinata JWT (401): Check that your JWT is correct and not expired. Response: ")>>
            \o JSONstringify(error.data)
       ELSE <<Lit("Metadata upload failed ("), Lit(error.status), Lit("): ")>>
            \o JSONstringify(error.data)
  ELSE <<Lit("Metadata creation failed: ")>> \o error.message

\* handleCreatePackage's catch: the message of the error it rethrows.
PackageCatch(message) == <<Lit("NFT package creation failed: ")>> \o message

\* handleGenerateImage's catch: the message of the error it rethrows.
GenerateCatch(message) == <<Lit("Failed to generate image: ")>> \o message

\* The catch of the CallTool request handler around the handler it awaits.
DispatchCatch(message) == <<Lit("Tool execution failed: ")>> \o message

\* ------------------------------------------------------------ dispatch
\* toolHandlers[name].  The registry is an object literal, so a name that is
\* not one of its keys is looked up in Object.prototype: "toString" finds a
\* function, "__proto__" finds Object.prototype itself, any other name
\* followed here finds nothing.
ToolHandler(name) ==
  IF name = "nft_pipeline_generate_image" THEN "handleGenerateImage"
  ELSE IF name = "nft_pipeline_upload_to_ipfs" THEN "handleUploadToIPFS"
  ELSE IF name = "nft_pipeline_create_metadata" THEN "handleCreateMetadata"
  ELSE IF name = "nft_pipeline_build_complete" THEN "handleCreatePackage"
  ELSE IF name = "toString" THEN "Object.prototype.toString"
  ELSE IF name = "__proto__" THEN "Object.prototype"
  ELSE "undefined"

UnknownToolError(name) == Error(<<Lit("Unknown tool: "), Lit(name)>>)

\* ------------------------------------------------------------ file names
UpperCase ==
  <<"A", "B", "C", "D", "E", "F", "G", "H", "I", "J", "K", "L", "M",
    "N", "O", "P", "Q", "R", "S", "T", "U", "V", "W", "X", "Y", "Z">>
LowerCase ==
  <<"a", "b", "c", "d", "e", "f", "g", "h", "i", "j", "k", "l", "m",
    "n", "o", "p", "q", "r", "s", "t", "u", "v", "w", "x", "y", "z">>
Digits == {"0", "1", "2", "3", "4", "5", "6", "7", "8", "9"}

\* [a-z0-9]
IsAlnum(c) == c \in Digits \/ \E j \in DOMAIN LowerCase : LowerCase[j] = c

\* .toLowerCase(), on a sequence of characters
ToLowerCase(s) ==
  [i \in DOMAIN s |->
     IF \E j \in DOMAIN UpperCase : UpperCase[j] = s[i]
     THEN LowerCase[CHOOSE j \in DOMAIN UpperCase : UpperCase[j] = s[i]]
     ELSE s[i]]

RECURSIVE SkipNonAlnum(_)
SkipNonAlnum(s) ==
  IF s = <<>> \/ IsAlnum(Head(s)) THEN s ELSE SkipNonAlnum(Tail(s))

\* .replace(/[^a-z0-9]+/g, '-'): each run of other characters becomes one hyphen.
RECURSIVE ReplaceNonAlnumRuns(_)
ReplaceNonAlnumRuns(s) ==
  IF s = <<>> THEN <<>>
  ELSE IF IsAlnum(Head(s)) THEN <<Head(s)>> \o ReplaceNonAlnumRuns(Tail(s))
  ELSE <<"-">> \o ReplaceNonAlnumRuns(SkipNonAlnum(Tail(s)))

RECURSIVE StripLeadingHyphens(_)
StripLeadingHyphens(s) ==
  IF s # <<>> /\ Head(s) = "-" THEN StripLeadingHyphens(Tail(s)) ELSE s

RECURSIVE StripTrailingHyphens(_)
StripTrailingHyphens(s) ==
  IF s # <<>> /\ s[Len(s)] = "-"
  THEN StripTrailingHyphens(SubSeq(s, 1, Len(s) - 1)) ELSE s

\* .replace(/^-+|-+$/g, '')
StripHyphens(s) == StripTrailingHyphens(StripLeadingHyphens(s))

\* .substring(0, n)
Substring(s, n) == SubSeq(s, 1, IF Len(s) < n THEN Len(s) ELSE n)

\* The sanitized file name base: lower-case, hyphenate, strip, then cut.
Slug(s) == Substring(StripHyphens(ReplaceNonAlnumRuns(ToLowerCase(s))), SlugMax)

\* The same on a string value whose pieces are its characters.
SlugText(x) ==
  LET sanitized == Slug([i \in DOMAIN x.v |-> x.v[i].v])
  IN  [i \in DOMAIN sanitized |-> Lit(sanitized[i])]

\* `${sanitized}-${Date.now()}.png`
Stamped(sanitized, now) == Text(sanitized \o <<Lit("-"), Lit(now), Lit(".png")>>)

\* handleCreatePackage's fileName: from the name, else the prompt, else a default.
FileName(a, now) ==
  Stamped(SlugText(Or(Or(a.name, a.prompt),
                      Chars(<<"n", "f", "t", "-", "i", "m", "a", "g", "e">>))), now)

\* new URL(url).pathname: what follows the scheme, the "//" and the host.
Pathname(url) == IF Len(url) < 5 THEN <<Lit("/")>> ELSE SubSeq(url, 5, Len(url))

\* path.split('/').pop(): what follows the last "/".
LastSegment(path) ==
  LET slashes == {i \in DOMAIN path : path[i] = Lit("/")}
  IN  IF slashes = {} THEN path
      ELSE SubSeq(path, (CHOOSE i \in slashes : \A j \in slashes : j <= i) + 1, Len(path))

\* handleUploadToIPFS's fileName once the URL is fetched: the URL's last path
\* segment if it has a ".", else the file name it was called with.
UrlFileName(url, given) ==
  LET urlFileName == LastSegment(Pathname(url.v))
  IN  IF urlFileName # <<>> /\ (\E i \in DOMAIN urlFileName : urlFileName[i] = Lit("."))
      THEN Text(urlFileName) ELSE given

\* handleUploadToIPFS's fileName once the file is read: the path's last segment.
PathFileName(path, given) == Or(Text(LastSegment(path.v)), given)

\* ------------------------------------------------------------ storage answers
TypeErrorCid == Error(<<Lit("Cannot read properties of undefined (reading 'cid')")>>)

\* response.data.data.cid (pinata), response.data.value.cid (nftStorage),
\* response.data.cid (web3Storage): reading through a missing envelope throws.
ExtractCid(service, response) ==
  IF service = Str("web3Storage") \/ response.envelope
  THEN [threw |-> FALSE, cid |-> response.cid]
  ELSE [threw |-> TRUE, cid |-> UNDEF]

GatewayUrl(service, cid) ==
  Text(<<Lit(IF service = Str("pinata") THEN "https://gateway.pinata.cloud/ipfs/"
             ELSE IF service = Str("nftStorage") THEN "https://nftstorage.link/ipfs/"
             ELSE "https://w3s.link/ipfs/")>> \o Interp(cid))

IpfsUrl(cid) == Text(<<Lit("ipfs://")>> \o Interp(cid))

\* The object handleUploadToIPFS returns as JSON text, as JSON.parse reads it.
UploadResult(service, cid, name) ==
  JSONobject([success |-> Bool(TRUE), cid |-> cid, ipfsUrl |-> IpfsUrl(cid),
              gatewayUrl |-> GatewayUrl(service, cid), service |-> service,
              fileName |-> name,
              message |-> Str("Image uploaded to IPFS successfully")])

\* Mutant: the document points at the gateway instead of the content address.
BuildMetadataGateway(a) ==
  [name |-> a.name, description |-> a.description,
   image |-> Text(<<Lit("https://gateway.pinata.cloud/ipfs/")>> \o Interp(a.imageHash)),
   external_url |-> UNDEF, attributes |-> EmptyArray, properties |-> EmptyObject]

\* The metadata document handleCreateMetadata builds.  The request's optional
\* external_url, attributes and properties are absent in every run followed
\* here, so the defaults apply.
BuildMetadata(a) ==
  [name |-> a.name, description |-> a.description,
   image |-> Text(<<Lit("ipfs://")>> \o Interp(a.imageHash)),
   external_url |-> UNDEF, attributes |-> EmptyArray, properties |-> EmptyObject]

\* The object handleCreateMetadata returns as JSON text, as JSON.parse reads it.
MetadataResult(service, cid) ==
  JSONobject([success |-> Bool(TRUE), metadataCid |-> cid, ipfsUrl |-> IpfsUrl(cid),
              gatewayUrl |-> GatewayUrl(service, cid), service |-> service,
              message |-> Str("Metadata uploaded to IPFS successfully")])

\* The object handleGenerateImage returns as JSON text.
GenerateResult(a, r, now) ==
  JSONobject([success |-> Bool(TRUE), imageUrl |-> r.imageUrl, localPath |-> r.localPath,
              prompt |-> r.prompt,
              suggestedFilename |-> Stamped(SlugText(a.prompt), now),
              message |-> IF Truthy(r.imageUrl)
                          THEN Str("Image generated successfully (URL)")
                          ELSE Str("Image generated successfully (local file)")])

\* Mutant: the result echoes the prompt of the request.
PackageResultRequestPrompt(a, e, ud, mdData, prompt) ==
  JSONobject([success |-> Bool(TRUE),
              imageCid |-> Get(ud, "cid"),
              metadataCid |-> Get(mdData, "metadataCid"),
              imageUrl |-> Get(ud, "gatewayUrl"),
              metadataUrl |-> Get(mdData, "gatewayUrl"),
              ipfsImageUrl |-> IpfsUrl(Get(ud, "cid")),
              ipfsMetadataUrl |-> IpfsUrl(Get(mdData, "metadataCid")),
              generatedPrompt |-> a.prompt,
              service |-> ResolveService(a.ipfsService, e),
              message |-> Str("NFT package created successfully! Ready for minting.")])

\* The object handleCreatePackage returns as JSON text.
PackageResult(a, e, ud, mdData, prompt) ==
  JSONobject([success |-> Bool(TRUE),
              imageCid |-> Get(ud, "cid"),
              metadataCid |-> Get(mdData, "metadataCid"),
              imageUrl |-> Get(ud, "gatewayUrl"),
              metadataUrl |-> Get(mdData, "gatewayUrl"),
              ipfsImageUrl |-> IpfsUrl(Get(ud, "cid")),
              ipfsMetadataUrl |-> IpfsUrl(Get(mdData, "metadataCid")),
              generatedPrompt |-> prompt,
              service |-> ResolveService(a.ipfsService, e),
              message |-> Str("NFT package created successfully! Ready for minting.")])

\* ------------------------------------------------------------ steps
\* The handler throws: the error passes handleCreatePackage's catch when that
\* is the handler that runs, then the catch of the CallTool request handler.
Fail(stage, call, cause, message, cs) ==
  LET thrown == IF tool'.handler = "handleCreatePackage"
                THEN PackageCatch(message) ELSE message
  IN  /\ pc' = "failed"
      /\ calls' = cs
      /\ hist' = [stage |-> stage, failedCall |-> call, cause |-> cause]
      /\ outcome' = [Pending EXCEPT !.status = "thrown", !.message = thrown,
                                    !.surfaced = DispatchCatch(thrown)]

\* The handler returns its result.
Done(result, metadata) ==
  /\ pc' = "done"
  /\ outcome' = [Pending EXCEPT !.status = "returned", !.result = result,
                                !.metadata = metadata]
  /\ UNCHANGED <<calls, hist>>

\* The run suspends on an external call it has just issued.
Await(next, cs) ==
  /\ pc' = next
  /\ calls' = cs
  /\ UNCHANGED <<hist, outcome>>

\* handleUploadToIPFS, once it holds the image bytes: the upload itself.
UploadSend(u, cs) ==
  IF u.service \in Services
  THEN Await("awaitImagePost", Bump(cs, "imagePost"))
  ELSE LET e == Error(<<Lit("Unsupported IPFS service: ")>> \o Interp(u.service))
       IN  Fail("image-upload", "", e, UploadCatch(e), cs)

\* handleUploadToIPFS from its call to its first await.
UploadBegin(a, cs, fsOk) ==
  LET service == ResolveService(a.service, env)
      apiKey  == ResolveApiKey(a.apiKey, service, env)
      given   == IF Defined(a.fileName) THEN a.fileName
                 ELSE Tokens(<<"image", ".", "png">>)
      u       == [imageUrl |-> a.imageUrl, imagePath |-> a.imagePath,
                  fileName |-> given, service |-> service, apiKey |-> apiKey]
      read    == [u EXCEPT !.fileName = PathFileName(a.imagePath, given)]
      issues  == UploadSchemaIssues(a)
  IN  IF issues # <<>>
      THEN /\ up' = up
           /\ Fail("image-upload", "", ZodError(issues), UploadCatch(ZodError(issues)), cs)
      ELSE IF ~Truthy(apiKey)
      THEN /\ up' = u
           /\ Fail("image-upload", "", MissingKeyError(service),
                   UploadCatch(MissingKeyError(service)), cs)
      ELSE IF Truthy(a.imageUrl)
      THEN /\ up' = u
           /\ Await("awaitFetch", Bump(cs, "fetch"))
      ELSE IF Truthy(a.imagePath)
      THEN IF fsOk
           THEN /\ up' = read
                /\ UploadSend(read, Bump(cs, "readFile"))
           ELSE LET e == Error(<<Lit("ENOENT: no such file or directory")>>)
                IN  /\ up' = u
                    /\ Fail("image-upload", "readFile", e, UploadCatch(e),
                            Bump(cs, "readFile"))
      ELSE LET e == Error(<<Lit("No image source provided")>>)
           IN  /\ up' = u
               /\ Fail("image-upload", "", e, UploadCatch(e), cs)

\* The arguments handleCreatePackage passes to handleUploadToIPFS.
UploadArgs(a, url, path, name) ==
  [imageUrl |-> Or(url, UNDEF), imagePath |-> Or(path, a.imagePath),
   fileName |-> name, service |-> a.ipfsService, apiKey |-> a.ipfsApiKey]

\* The arguments handleCreatePackage passes to handleCreateMetadata.
MetadataArgs(a, imageCid) ==
  [name |-> a.name, description |-> a.description, imageHash |-> imageCid,
   service |-> a.ipfsService, apiKey |-> a.ipfsApiKey]

\* handleCreateMetadata from its call to its first await.
MetadataBegin(a, cs) ==
  LET service == ResolveService(a.service, env)
      apiKey  == ResolveApiKey(a.apiKey, service, env)
      issues  == MetadataSchemaIssues(a)
  IN  IF issues # <<>>
      THEN /\ md' = md
           /\ Fail("metadata-upload", "", ZodError(issues), MetadataCatch(ZodError(issues)), cs)
      ELSE IF ~Truthy(apiKey)
      THEN /\ md' = md
           /\ Fail("metadata-upload", "", MissingKeyError(service),
                   MetadataCatch(MissingKeyError(service)), cs)
      ELSE /\ md' = [service |-> service, apiKey |-> apiKey, metadata |-> BuildMetadata(a)]
           /\ IF service \in Services
              THEN Await("awaitMetadataPost", Bump(cs, "metadataPost"))
              ELSE LET e == Error(<<Lit("Unsupported IPFS service: ")>> \o Interp(service))
                   IN  Fail("metadata-upload", "", e, MetadataCatch(e), cs)

\* A blob the storage backend holds: an image under its file name, or a
\* metadata document, with the content id the backend answered.
Blob(kind, name, cid) == [kind |-> kind, fileName |-> name, cid |-> cid]

\* ------------------------------------------------------------ actions
\* No tool call has been dispatched yet.
Idle ==
  /\ pc = "idle"
  /\ tool = NoTool
  /\ args = NoArgs
  /\ finalImageUrl = UNDEF
  /\ finalImagePath = UNDEF
  /\ generatedPrompt = UNDEF
  /\ fileName = UNDEF
  /\ up = NoUpload
  /\ uploadData = NoObject
  /\ md = NoMetadata
  /\ calls = NoCalls
  /\ hist = NoHist
  /\ answered = NoAnswer
  /\ stored = {}
  /\ outcome = Pending

Init ==
  /\ env \in Envs
  /\ Idle
  /\ slug = NoSlug

\* Mutant: the generation branch is taken whenever a prompt key is present,
\* even an empty one.
ImageSourcePromptPresent(a) ==
  IF Defined(a.prompt) THEN "prompt"
  ELSE IF Truthy(a.imageUrl) THEN "imageUrl"
  ELSE IF Truthy(a.imagePath) THEN "imagePath"
  ELSE "none"

\* Step 1 of handleCreatePackage: which image source the if-chain takes.
ImageSource(a) ==
  IF Truthy(a.prompt) THEN "prompt"
  ELSE IF Truthy(a.imageUrl) THEN "imageUrl"
  ELSE IF Truthy(a.imagePath) THEN "imagePath"
  ELSE "none"

\* Whether the generation result makes the handler throw.
GenerationFailed(r) ==
  ~r.success \/ (~Truthy(r.imageUrl) /\ ~Truthy(r.localPath))

\* Mutant: the content id check is missing.
HasCidUnchecked(ud) == TRUE

\* if (!imageCid): whether the upload result carries a content id.
HasCid(ud) == Truthy(Get(ud, "cid"))

\* A build_complete call is dispatched: handleCreatePackage from its call to
\* its first await: the schema, the image source and, for a supplied image,
\* the file name and the start of the upload.
CallBuildComplete ==
  /\ pc = "idle"
  /\ \E name \in ToolNames, a \in PackageArgs, fsOk \in BOOLEAN, now \in Timestamps :
       /\ ToolHandler(name) = "handleCreatePackage"
       /\ tool' = [name |-> name, handler |-> ToolHandler(name), args |-> a]
       /\ args' = a
       /\ UNCHANGED <<env, uploadData, md, answered, stored, slug>>
       /\ LET issues == PackageSchemaIssues(a)
              noSource == Error(<<Lit("No image source provided")>>)
          IN  IF issues # <<>>
              THEN /\ Fail("validate", "", ZodError(issues), ZodError(issues).message, calls)
                   /\ UNCHANGED <<finalImageUrl, finalImagePath, generatedPrompt, fileName, up>>
              ELSE IF ImageSource(a) = "prompt"
              THEN /\ Await("awaitGenerate", Bump(calls, "generate"))
                   /\ UNCHANGED <<finalImageUrl, finalImagePath, generatedPrompt, fileName, up>>
              ELSE IF ImageSource(a) = "imageUrl"
              THEN /\ finalImageUrl' = a.imageUrl
                   /\ fileName' = FileName(a, now)
                   /\ UNCHANGED <<finalImagePath, generatedPrompt>>
                   /\ UploadBegin(UploadArgs(a, a.imageUrl, finalImagePath, FileName(a, now)),
                                  calls, fsOk)
              ELSE IF ImageSource(a) = "imagePath"
              THEN /\ finalImagePath' = a.imagePath
                   /\ fileName' = FileName(a, now)
                   /\ UNCHANGED <<finalImageUrl, generatedPrompt>>
                   /\ UploadBegin(UploadArgs(a, finalImageUrl, a.imagePath, FileName(a, now)),
                                  calls, fsOk)
              ELSE /\ Fail("validate", "", noSource, noSource.message, calls)
                   /\ UNCHANGED <<finalImageUrl, finalImagePath, generatedPrompt, fileName, up>>

\* An upload_to_ipfs call is dispatched: handleUploadToIPFS to its first await.
CallUploadToIPFS ==
  /\ pc = "idle"
  /\ \E name \in ToolNames, a \in UploadToolArgs, fsOk \in BOOLEAN :
       /\ ToolHandler(name) = "handleUploadToIPFS"
       /\ tool' = [name |-> name, handler |-> ToolHandler(name), args |-> a]
       /\ UNCHANGED <<env, args, finalImageUrl, finalImagePath, generatedPrompt, fileName,
                      uploadData, md, answered, stored, slug>>
       /\ UploadBegin(a, calls, fsOk)

\* A create_metadata call is dispatched: handleCreateMetadata to its first await.
CallCreateMetadata ==
  /\ pc = "idle"
  /\ \E name \in ToolNames, a \in MetadataToolArgs :
       /\ ToolHandler(name) = "handleCreateMetadata"
       /\ tool' = [name |-> name, handler |-> ToolHandler(name), args |-> a]
       /\ UNCHANGED <<env, args, finalImageUrl, finalImagePath, generatedPrompt, fileName,
                      up, uploadData, answered, stored, slug>>
       /\ MetadataBegin(a, calls)

\* A generate_image call is dispatched: handleGenerateImage to its await.
CallGenerateImage ==
  /\ pc = "idle"
  /\ \E name \in ToolNames, a \in GenerateToolArgs :
       /\ ToolHandler(name) = "handleGenerateImage"
       /\ tool' = [name |-> name, handler |-> ToolHandler(name), args |-> a]
       /\ UNCHANGED <<env, args, finalImageUrl, finalImagePath, generatedPrompt, fileName,
                      up, uploadData, md, answered, stored, slug>>
       /\ LET issues == GenerateSchemaIssues(a)
          IN  IF issues # <<>>
              THEN Fail("validate", "", ZodError(issues),
                        GenerateCatch(ZodError(issues).message), calls)
              ELSE Await("awaitGenerate", Bump(calls, "generate"))

\* A call is dispatched under a name that is not a key of the registry.  With
\* no handler found the request handler throws outside its try; a function
\* inherited from Object.prototype is called like a handler (toString returns
\* the string "[object Undefined]", which is no result object); an inherited
\* value that is no function makes the call throw inside the try.
CallUnregistered ==
  /\ pc = "idle"
  /\ \E name \in ToolNames :
       /\ ToolHandler(name) \notin {"handleGenerateImage", "handleUploadToIPFS",
                                    "handleCreateMetadata", "handleCreatePackage"}
       /\ tool' = [name |-> name, handler |-> ToolHandler(name), args |-> NoObject]
       /\ UNCHANGED <<env, args, finalImageUrl, finalImagePath, generatedPrompt, fileName,
                      up, uploadData, md, answered, stored, slug>>
       /\ IF ToolHandler(name) = "undefined"
          THEN /\ pc' = "failed"
               /\ calls' = calls
               /\ hist' = [stage |-> "dispatch", failedCall |-> "",
                           cause |-> UnknownToolError(name)]
               /\ outcome' = [Pending EXCEPT !.status = "thrown",
                                             !.message = UnknownToolError(name).message,
                                             !.surfaced = UnknownToolError(name).message]
          ELSE IF ToolHandler(name) = "Object.prototype.toString"
          THEN Done(NoObject, NoObject)
          ELSE LET e == Error(<<Lit("handler is not a function")>>)
               IN  Fail("dispatch", "", e, e.message, calls)

\* imageGenerator.generateImage has answered: the result check, then
\* handleGenerateImage returns, or handleCreatePackage names the file and
\* starts the upload.
GenerateReturns ==
  /\ pc = "awaitGenerate"
  /\ \E r \in GenerationOutcomes, fsOk \in BOOLEAN, now \in Timestamps :
       /\ UNCHANGED <<env, tool, args, uploadData, md, stored, slug>>
       /\ answered' = [answered EXCEPT !.prompt = r.prompt]
       /\ IF tool.handler = "handleGenerateImage"
          THEN /\ UNCHANGED <<finalImageUrl, finalImagePath, generatedPrompt, fileName, up>>
               /\ IF r.rejected
                  THEN Fail("resolve", "generate", Error(r.error.v),
                            GenerateCatch(r.error.v), calls)
                  ELSE IF GenerationFailed(r)
                  THEN LET message == Or(r.error, Str("Image generation failed")).v
                       IN  Fail("resolve", "generate", Error(message),
                                GenerateCatch(message), calls)
                  ELSE Done(GenerateResult(tool.args, r, now), NoObject)
          ELSE IF r.rejected
          THEN /\ Fail("resolve", "generate", Error(r.error.v), r.error.v, calls)
               /\ UNCHANGED <<finalImageUrl, finalImagePath, generatedPrompt, fileName, up>>
          ELSE IF GenerationFailed(r)
          THEN LET message == Or(r.error, Str("Image generation failed")).v
               IN  /\ Fail("resolve", "generate", Error(message), message, calls)
                   /\ UNCHANGED <<finalImageUrl, finalImagePath, generatedPrompt, fileName, up>>
          ELSE /\ finalImageUrl' = r.imageUrl
               /\ finalImagePath' = r.localPath
               /\ generatedPrompt' = r.prompt
               /\ fileName' = FileName(args, now)
               /\ UploadBegin(UploadArgs(args, r.imageUrl, r.localPath, FileName(args, now)),
                              calls, fsOk)

\* Mutant: a failed fetch is tried again.
FetchReturnsRetry ==
  /\ pc = "awaitFetch"
  /\ \E o \in FetchOutcomes :
       /\ UNCHANGED <<env, tool, args, finalImageUrl, finalImagePath, generatedPrompt,
                      fileName, uploadData, md, answered, stored, slug>>
       /\ IF o.kind = "error"
          THEN /\ calls.fetch < 3
               /\ pc' = "awaitFetch"
               /\ calls' = Bump(calls, "fetch")
               /\ hist' = [stage |-> "image-upload", failedCall |-> "fetch", cause |-> o.error]
               /\ UNCHANGED <<outcome, up>>
          ELSE /\ up' = [up EXCEPT !.fileName = UrlFileName(up.imageUrl, up.fileName)]
               /\ UploadSend(up, calls)

\* axios.get of the image URL has answered: on success the file name is
\* taken from the URL and the upload is sent.
FetchReturns ==
  /\ pc = "awaitFetch"
  /\ \E o \in FetchOutcomes :
       /\ UNCHANGED <<env, tool, args, finalImageUrl, finalImagePath, generatedPrompt,
                      fileName, uploadData, md, answered, stored, slug>>
       /\ IF o.kind = "error"
          THEN /\ up' = up
               /\ Fail("image-upload", "fetch", o.error, UploadCatch(o.error), calls)
          ELSE /\ up' = [up EXCEPT !.fileName = UrlFileName(up.imageUrl, up.fileName)]
               /\ UploadSend(up, calls)

\* Mutant: a failed image upload is swallowed and the run waits for a retry
\* that nothing schedules.
ImagePostReturnsSwallow ==
  /\ pc = "awaitImagePost"
  /\ \E o \in PostOutcomes :
       /\ UNCHANGED <<env, tool, args, finalImageUrl, finalImagePath, generatedPrompt,
                      fileName, up, slug>>
       /\ answered' = [answered EXCEPT !.image = o.cid]
       /\ stored' = IF o.kind = "ok"
                    THEN stored \cup {Blob("image", up.fileName, o.cid)} ELSE stored
       /\ IF o.kind = "error"
          THEN /\ pc' = "awaitRetry"
               /\ UNCHANGED <<calls, hist, outcome, uploadData, md>>
          ELSE IF ExtractCid(up.service, o).threw
          THEN /\ Fail("image-upload", "", TypeErrorCid, UploadCatch(TypeErrorCid), calls)
               /\ UNCHANGED <<uploadData, md>>
          ELSE LET ud == UploadResult(up.service, ExtractCid(up.service, o).cid, up.fileName)
                   imageCid == Get(ud, "cid")
                   noCid == Error(<<Lit("No CID returned from IPFS upload. Response: "),
                                    [k |-> "json", v |-> "upload result"]>>)
               IN  IF tool.handler = "handleUploadToIPFS"
                   THEN /\ Done(ud, NoObject)
                        /\ UNCHANGED <<uploadData, md>>
                   ELSE /\ uploadData' = ud
                        /\ IF ~Truthy(Get(ud, "success"))
                           THEN /\ Fail("image-upload", "",
                                        Error(<<Lit("Image upload to IPFS failed: ")>>),
                                        <<Lit("Image upload to IPFS failed: "),
                                          [k |-> "json", v |-> "upload result"]>>, calls)
                                /\ md' = md
                           ELSE IF ~HasCid(ud)
                           THEN /\ Fail("image-upload", "", noCid, noCid.message, calls)
                                /\ md' = md
                           ELSE MetadataBegin(MetadataArgs(args, imageCid), calls)

\* The image upload has answered: handleUploadToIPFS returns or throws, then
\* handleCreatePackage checks the content id and starts handleCreateMetadata.
ImagePostReturns ==
  /\ pc = "awaitImagePost"
  /\ \E o \in PostOutcomes :
       /\ UNCHANGED <<env, tool, args, finalImageUrl, finalImagePath, generatedPrompt,
                      fileName, up, slug>>
       /\ answered' = [answered EXCEPT !.image = o.cid]
       /\ stored' = IF o.kind = "ok"
                    THEN stored \cup {Blob("image", up.fileName, o.cid)} ELSE stored
       /\ IF o.kind = "error"
          THEN /\ Fail("image-upload", "imagePost", o.error, UploadCatch(o.error), calls)
               /\ UNCHANGED <<uploadData, md>>
          ELSE IF ExtractCid(up.service, o).threw
          THEN /\ Fail("image-upload", "", TypeErrorCid, UploadCatch(TypeErrorCid), calls)
               /\ UNCHANGED <<uploadData, md>>
          ELSE LET ud == UploadResult(up.service, ExtractCid(up.service, o).cid, up.fileName)
                   imageCid == Get(ud, "cid")
                   noCid == Error(<<Lit("No CID returned from IPFS upload. Response: "),
                                    [k |-> "json", v |-> "upload result"]>>)
               IN  IF tool.handler = "handleUploadToIPFS"
                   THEN /\ Done(ud, NoObject)
                        /\ UNCHANGED <<uploadData, md>>
                   ELSE /\ uploadData' = ud
                        /\ IF ~Truthy(Get(ud, "success"))
                           THEN /\ Fail("image-upload", "",
                                        Error(<<Lit("Image upload to IPFS failed: ")>>),
                                        <<Lit("Image upload to IPFS failed: "),
                                          [k |-> "json", v |-> "upload result"]>>, calls)
                                /\ md' = md
                           ELSE IF ~HasCid(ud)
                           THEN /\ Fail("image-upload", "", noCid, noCid.message, calls)
                                /\ md' = md
                           ELSE MetadataBegin(MetadataArgs(args, imageCid), calls)

\* Mutant: a failed metadata upload rolls the image upload back.
MetadataPostReturnsRollback ==
  /\ pc = "awaitMetadataPost"
  /\ \E o \in PostOutcomes :
       /\ UNCHANGED <<env, tool, args, finalImageUrl, finalImagePath, generatedPrompt,
                      fileName, up, uploadData, md, slug>>
       /\ answered' = [answered EXCEPT !.metadata = o.cid]
       /\ stored' = IF o.kind = "ok"
                    THEN stored \cup {Blob("metadata", Str("metadata.json"), o.cid)}
                    ELSE {blob \in stored : blob.kind # "image"}
       /\ IF o.kind = "error"
          THEN Fail("metadata-upload", "metadataPost", o.error, MetadataCatch(o.error), calls)
          ELSE IF ExtractCid(md.service, o).threw
          THEN Fail("metadata-upload", "", TypeErrorCid, MetadataCatch(TypeErrorCid), calls)
          ELSE LET mdData == MetadataResult(md.service, ExtractCid(md.service, o).cid)
               IN  IF tool.handler = "handleCreateMetadata"
                   THEN Done(mdData, JSONobject(md.metadata))
                   ELSE IF ~Truthy(Get(mdData, "success"))
                   THEN Fail("metadata-upload", "",
                             Error(<<Lit("Metadata upload to IPFS failed")>>),
                             <<Lit("Metadata upload to IPFS failed")>>, calls)
                   ELSE Done(PackageResult(args, env, uploadData, mdData, generatedPrompt),
                             JSONobject(md.metadata))

\* The metadata upload has answered: handleCreateMetadata returns or throws,
\* then handleCreatePackage returns the package.
MetadataPostReturns ==
  /\ pc = "awaitMetadataPost"
  /\ \E o \in PostOutcomes :
       /\ UNCHANGED <<env, tool, args, finalImageUrl, finalImagePath, generatedPrompt,
                      fileName, up, uploadData, md, slug>>
       /\ answered' = [answered EXCEPT !.metadata = o.cid]
       /\ stored' = IF o.kind = "ok"
                    THEN stored \cup {Blob("metadata", Str("metadata.json"), o.cid)}
                    ELSE stored
       /\ IF o.kind = "error"
          THEN Fail("metadata-upload", "metadataPost", o.error, MetadataCatch(o.error), calls)
          ELSE IF ExtractCid(md.service, o).threw
          THEN Fail("metadata-upload", "", TypeErrorCid, MetadataCatch(TypeErrorCid), calls)
          ELSE LET mdData == MetadataResult(md.service, ExtractCid(md.service, o).cid)
               IN  IF tool.handler = "handleCreateMetadata"
                   THEN Done(mdData, JSONobject(md.metadata))
                   ELSE IF ~Truthy(Get(mdData, "success"))
                   THEN Fail("metadata-upload", "",
                             Error(<<Lit("Metadata upload to IPFS failed")>>),
                             <<Lit("Metadata upload to IPFS failed")>>, calls)
                   ELSE Done(PackageResult(args, env, uploadData, mdData, generatedPrompt),
                             JSONobject(md.metadata))

Next ==
  \/ CallBuildComplete
  \/ CallUploadToIPFS
  \/ CallCreateMetadata
  \/ CallGenerateImage
  \/ CallUnregistered
  \/ GenerateReturns
  \/ FetchReturns
  \/ ImagePostReturns
  \/ MetadataPostReturns

Spec == Init /\ [][Next]_vars

\* Every external call that was issued returns or fails in the end.
LiveSpec ==
  /\ Init
  /\ [][Next]_vars
  /\ WF_vars(GenerateReturns)
  /\ WF_vars(FetchReturns)
  /\ WF_vars(ImagePostReturns)
  /\ WF_vars(MetadataPostReturns)

\* ------------------------------------------------------------ sanitizing
\* The file name bases that are sanitized: a padding of the letter "a", none
\* or up to the cut, followed by a short tail over a few kinds of character.
SlugAlphabet == {"a", "B", "-", "#"}
SlugTails == UNION {[1..n -> SlugAlphabet] : n \in 0..MaxTail}
SlugInputs ==
  {[i \in 1..k |-> "a"] \o t : k \in {0, SlugMax - 1, SlugMax}, t \in SlugTails}

SlugInit ==
  /\ env = [IPFS_SERVICE |-> UNDEF, keys |-> {}]
  /\ Idle
  /\ slug \in [pc : {"input"}, input : SlugInputs, once : {<<>>}, twice : {<<>>}]

\* The file name base is sanitized.
Sanitize ==
  /\ slug.pc = "input"
  /\ slug' = [slug EXCEPT !.pc = "once", !.once = Slug(slug.input)]
  /\ UNCHANGED <<env, pc, tool, args, finalImageUrl, finalImagePath, generatedPrompt,
                 fileName, up, uploadData, md, calls, hist, answered, stored, outcome>>

\* The sanitized base is sanitized again.
SanitizeAgain ==
  /\ slug.pc = "once"
  /\ slug' = [slug EXCEPT !.pc = "twice", !.twice = Slug(slug.once)]
  /\ UNCHANGED <<env, pc, tool, args, finalImageUrl, finalImagePath, generatedPrompt,
                 fileName, up, uploadData, md, calls, hist, answered, stored, outcome>>

SlugNext == Sanitize \/ SanitizeAgain

SlugSpec == SlugInit /\ [][SlugNext]_vars

\* ------------------------------------------------------------ claims
ExternalCalls == {"generate", "fetch", "imagePost", "metadataPost"}
NoExternalCalls == \A c \in ExternalCalls : calls[c] = 0
\* The call that was dispatched is a build_complete run.
BuildCompleteRun == tool.handler = "handleCreatePackage"
Started == pc # "idle" /\ BuildCompleteRun

\* The request names no image source: each of prompt, imageUrl, imagePath is
\* missing or empty.
Supplied(x) == x # UNDEF /\ x # Str("")
NoSourceSupplied ==
  ~Supplied(args.prompt) /\ ~Supplied(args.imageUrl) /\ ~Supplied(args.imagePath)

\* The run was rejected as an invalid request: it threw while validating the
\* request, before resolving the image.
InvalidRequest ==
  /\ pc = "failed"
  /\ outcome.status = "thrown"
  /\ hist.stage = "validate"

\* C1: a build_complete request that supplies none of prompt, imageUrl and
\* imagePath (or only empty ones) fails with an invalid-request error, and no
\* external call (generation, fetch, image upload, metadata upload) is issued.
C1_NoSourceRejectedWithoutCalls ==
  (Started /\ NoSourceSupplied) => (InvalidRequest /\ NoExternalCalls)

\* C1 witness: an otherwise valid request whose sources are all empty strings
\* or missing has been rejected.
C1_Witness ==
  /\ InvalidRequest
  /\ NoSourceSupplied
  /\ args.prompt = Str("")
  /\ args.imagePath = Str("")
  /\ IsString(args.name) /\ IsString(args.description)
  /\ calls = NoCalls

\* C2: a valid build_complete request that supplies imageUrl and no prompt
\* never invokes the image generation provider, whatever the later stages do.
C2_ImageUrlNeverGenerates ==
  (Started /\ Supplied(args.imageUrl) /\ ~Supplied(args.prompt)) => calls.generate = 0

\* C2 witness: such a run went through fetch and both uploads to Done.
C2_Witness ==
  /\ pc = "done"
  /\ Supplied(args.imageUrl) /\ ~Supplied(args.prompt)
  /\ calls.generate = 0 /\ calls.fetch = 1 /\ calls.metadataPost = 1

\* C3: the metadata upload is attempted only after the image upload of the
\* run has succeeded and returned a content id; a run that failed in the
\* image upload stage has issued no metadata upload.
C3_MetadataOnlyAfterImageCid ==
  BuildCompleteRun =>
    /\ calls.metadataPost > 0 =>
         /\ calls.imagePost = 1
         /\ pc # "awaitImagePost"
         /\ Supplied(answered.image)
         /\ hist.stage # "image-upload"
    /\ hist.stage = "image-upload" => calls.metadataPost = 0

\* C3 witness: one run failed in the image upload, after the upload was sent,
\* with no metadata upload issued.
C3_Witness ==
  /\ BuildCompleteRun
  /\ pc = "failed"
  /\ hist.stage = "image-upload"
  /\ calls.imagePost = 1
  /\ answered.image = Str("")
  /\ calls.metadataPost = 0

\* C4: in a run that reaches Done, the image field of the metadata document
\* that was uploaded and returned is "ipfs://" followed by the content id the
\* image upload answered with, and is not the gateway URL.
C4_MetadataImageIsContentAddress ==
  (pc = "done" /\ BuildCompleteRun) =>
    /\ Get(outcome.metadata, "image") = Text(<<Lit("ipfs://")>> \o answered.image.v)
    /\ Get(md.metadata, "image") = Get(outcome.metadata, "image")
    /\ Get(outcome.metadata, "image") # Get(outcome.result, "imageUrl")

\* C4 witness: a run is Done with an image content id and a gateway URL.
C4_Witness ==
  /\ pc = "done"
  /\ BuildCompleteRun
  /\ answered.image = Str("QmA")
  /\ Get(outcome.result, "imageUrl") = Text(<<Lit("https://gateway.pinata.cloud/ipfs/"), Lit("QmA")>>)
  /\ Get(outcome.metadata, "image") = Text(<<Lit("ipfs://"), Lit("QmA")>>)

SuppliedSources == {f \in {"prompt", "imageUrl", "imagePath"} : Supplied(args[f])}

\* The request is valid apart from its choice of image sources.
OtherFieldsValid ==
  /\ IsString(args.name)
  /\ IsString(args.description)
  /\ args.ipfsService \in Services \cup {UNDEF}
  /\ args.imageUrl # Str("")

\* C5 (as claimed): a request that supplies more than one of prompt, imageUrl
\* and imagePath fails immediately with an invalid-request error, before any
\* external call.
C5_MultipleSourcesRejected ==
  (Started /\ Cardinality(SuppliedSources) >= 2) => (InvalidRequest /\ NoExternalCalls)

\* C5 (amended): at least one source is required.  A request with no source
\* is rejected before any external call; an otherwise valid request with more
\* than one source is accepted, and the source is taken by precedence:
\* prompt, then imageUrl, then imagePath.
C5_AtLeastOneSourceByPrecedence ==
  Started =>
    /\ NoSourceSupplied => (InvalidRequest /\ NoExternalCalls)
    /\ (Cardinality(SuppliedSources) >= 2 /\ OtherFieldsValid) =>
         /\ ~InvalidRequest
         /\ calls.generate = 1 <=> Supplied(args.prompt)
         /\ (~Supplied(args.prompt) /\ Supplied(args.imageUrl)) =>
              (finalImageUrl = args.imageUrl /\ calls.readFile = 0)

\* C5 witness: a request with both a prompt and an image URL ran to Done,
\* through the generation provider.
C5_Witness ==
  /\ pc = "done"
  /\ Supplied(args.prompt) /\ Supplied(args.imageUrl)
  /\ calls.generate = 1

\* C6: in a run, each external call (generation, fetch, image upload,
\* metadata upload) is issued at most once, and once one of them has failed
\* no further external call is issued.
C6_SingleAttemptAndAbort ==
  /\ [](\A c \in ExternalCalls : calls[c] <= 1)
  /\ [][hist.failedCall \in ExternalCalls => calls' = calls]_vars

\* C6 witness: a run that generated, fetched and sent the image failed on the
\* image upload and issued nothing after it.
C6_Witness ==
  /\ BuildCompleteRun
  /\ pc = "failed"
  /\ hist.failedCall = "imagePost"
  /\ calls.generate = 1 /\ calls.fetch = 1 /\ calls.imagePost = 1
  /\ calls.metadataPost = 0

\* C7: a failed run's error identifies the failing stage: the error of a
\* metadata upload failure differs from the error the image upload stage
\* surfaces for the same upstream status and body.
C7_StageAttributed ==
  (BuildCompleteRun /\ pc = "failed" /\ hist.failedCall = "metadataPost"
     /\ hist.cause.hasResponse) =>
    outcome.message # PackageCatch(UploadCatch(hist.cause))

\* C8: when a run fails in the metadata stage after its image upload
\* succeeded (the metadata upload was sent and failed), the error surfaced
\* contains the image content id the run obtained.
C8_MetadataFailureCarriesImageCid ==
  (BuildCompleteRun /\ pc = "failed" /\ hist.stage = "metadata-upload"
     /\ calls.metadataPost = 1
     /\ IsString(answered.image) /\ Supplied(answered.image)) =>
    Contains(outcome.message, answered.image.v)

AuthTexts ==
  {Lit("Pinata authentication failed (403): Ensure your JWT has \"Files\" Write permission enabled. Response: "),
   Lit("Invalid Pinata JWT (401): Check that your JWT is correct and not expired. Response: ")}
GenericUploadTexts == {Lit("IPFS upload failed ("), Lit("Metadata upload failed (")}
NamesAuthentication(m) == \E i \in DOMAIN m : m[i] \in AuthTexts
NamesGenericUploadFailure(m) == \E i \in DOMAIN m : m[i] \in GenericUploadTexts

\* C9: when the storage backend answers an upload (image or metadata) with
\* 401 or 403, the error surfaced names an authentication failure and carries
\* the upstream response body (as JSON.stringify serialises it); any other
\* error status is surfaced as a generic upload failure carrying the status
\* and the body.
C9_AuthFailuresNamed ==
  (pc = "failed" /\ hist.failedCall \in {"imagePost", "metadataPost"}
     /\ hist.cause.hasResponse) =>
    /\ Contains(outcome.message, JSONstringify(hist.cause.data))
    /\ IF hist.cause.status \in {"401", "403"}
       THEN /\ NamesAuthentication(outcome.message)
            /\ ~NamesGenericUploadFailure(outcome.message)
       ELSE /\ NamesGenericUploadFailure(outcome.message)
            /\ ~NamesAuthentication(outcome.message)
            /\ Contains(outcome.message, <<Lit(hist.cause.status)>>)

\* C9 witness: the image upload was answered 401 with a body.
C9_Witness ==
  /\ BuildCompleteRun
  /\ pc = "failed"
  /\ hist.failedCall = "imagePost"
  /\ hist.cause.hasResponse
  /\ hist.cause.status = "401"
  /\ hist.cause.data = Str("body2")
  /\ Contains(outcome.message, <<[k |-> "json", v |-> "body2"]>>)

\* C10: when fetching the bytes of the image URL fails, the error surfaced is
\* a fetch error, distinct from every storage upload failure and from a
\* storage authentication failure, and no upload is attempted.
C10_FetchFailureDistinct ==
  (BuildCompleteRun /\ pc = "failed" /\ hist.failedCall = "fetch") =>
    /\ calls.imagePost = 0
    /\ calls.metadataPost = 0
    /\ ~NamesAuthentication(outcome.message)
    /\ \A r \in ErrorResponses : outcome.message # PackageCatch(UploadCatch(r.error))

\* The storage service a direct upload_to_ipfs or create_metadata call
\* selects: the one it names, else the configured default, else pinata.
SelectedService ==
  IF Supplied(tool.args.service) THEN tool.args.service
  ELSE IF Supplied(env.IPFS_SERVICE) THEN env.IPFS_SERVICE
  ELSE Str("pinata")

\* The environment variable that holds the credential of a storage service.
CredentialVariable(service) ==
  CASE service = Str("pinata") -> "PINATA_API_KEY"
    [] service = Str("nftStorage") -> "NFT_STORAGE_API_KEY"
    [] service = Str("web3Storage") -> "WEB3_STORAGE_API_KEY"

\* A direct storage call with valid arguments selected one of the storage
\* services, and neither its apiKey nor that service's environment variable
\* provides a credential.
NoCredential ==
  /\ tool.handler \in {"handleUploadToIPFS", "handleCreateMetadata"}
  /\ IF tool.handler = "handleUploadToIPFS"
     THEN UploadSchemaIssues(tool.args) = <<>>
     ELSE MetadataSchemaIssues(tool.args) = <<>>
  /\ SelectedService \in Services
  /\ ~Supplied(tool.args.apiKey)
  /\ CredentialVariable(SelectedService) \notin env.keys

\* C11: when neither the apiKey argument nor the environment variable of the
\* selected storage service provides a credential, upload_to_ipfs and
\* create_metadata fail with an error that names that environment variable,
\* and no fetch, image upload or metadata upload is issued.
C11_MissingCredentialNamesVariable ==
  NoCredential =>
    /\ pc = "failed"
    /\ outcome.status = "thrown"
    /\ Contains(outcome.message, <<Lit(CredentialVariable(SelectedService))>>)
    /\ Contains(outcome.surfaced, <<Lit(CredentialVariable(SelectedService))>>)
    /\ calls.fetch = 0 /\ calls.readFile = 0
    /\ calls.imagePost = 0 /\ calls.metadataPost = 0

\* C11 witness: create_metadata was called for nftStorage with only the
\* pinata credential set, and failed naming NFT_STORAGE_API_KEY.
C11_Witness ==
  /\ NoCredential
  /\ tool.handler = "handleCreateMetadata"
  /\ SelectedService = Str("nftStorage")
  /\ env.keys = {"PINATA_API_KEY"}
  /\ pc = "failed"
  /\ Contains(outcome.message, <<Lit("NFT_STORAGE_API_KEY")>>)
  /\ calls = NoCalls

\* The base of the derived file name: the name, else the prompt, else the
\* default base.
DerivedBase ==
  IF Supplied(args.name) THEN args.name
  ELSE IF Supplied(args.prompt) THEN args.prompt
  ELSE Chars(<<"n", "f", "t", "-", "i", "m", "a", "g", "e">>)

\* C12: in every build_complete run that reaches the image upload, whatever
\* the image source, the image is submitted to the storage backend under the
\* derived file name: slug(name or prompt), "-", the timestamp, ".png".
C12_ImageSubmittedUnderDerivedName ==
  (BuildCompleteRun /\ calls.imagePost = 1) =>
    /\ up.fileName = fileName
    /\ \E now \in Timestamps : up.fileName = Stamped(SlugText(DerivedBase), now)

\* C13: file name slugging (lower-case, each run of non-alphanumerics to one
\* hyphen, strip leading and trailing hyphens, cut to 50 characters) is
\* idempotent: slugging a slug gives the same slug, also for inputs whose
\* slug is cut by the truncation.
C13_SlugIdempotent ==
  slug.pc = "twice" => slug.twice = slug.once

\* C14: every successful result carries non-empty content ids: when
\* upload_to_ipfs, create_metadata or build_complete returns success, each
\* content id in the result (cid; metadataCid; imageCid and metadataCid) is
\* present and not empty, whatever body the storage backend answered with.
C14_SuccessCarriesContentIds ==
  (pc = "done" /\ outcome.status = "returned") =>
    /\ tool.handler = "handleUploadToIPFS" => Supplied(Get(outcome.result, "cid"))
    /\ tool.handler = "handleCreateMetadata" => Supplied(Get(outcome.result, "metadataCid"))
    /\ BuildCompleteRun =>
         /\ Supplied(Get(outcome.result, "imageCid"))
         /\ Supplied(Get(outcome.result, "metadataCid"))

\* C15: dispatching a call whose operation name is not one of the four
\* declared operations fails with the unknown-operation error and invokes no
\* handler, for every such name.
C15_UnknownNameRejected ==
  (pc # "idle" /\ tool.name \notin RegisteredTools) =>
    /\ pc = "failed"
    /\ outcome.status = "thrown"
    /\ outcome.surfaced = <<Lit("Unknown tool: "), Lit(tool.name)>>
    /\ tool.handler = "undefined"

\* C16: no operation of a build_complete run removes a stored blob: the
\* storage backend never loses a blob in a step of the run (the run issues no
\* delete or rollback), and after a run whose image upload succeeded and
\* whose metadata stage failed, the image stored by that run is still stored.
C16_NoBlobRemoved ==
  /\ [][stored \subseteq stored']_vars
  /\ []((BuildCompleteRun /\ pc = "failed" /\ hist.stage = "metadata-upload"
           /\ calls.imagePost = 1) =>
          Blob("image", up.fileName, answered.image) \in stored)

\* C16 witness: the image upload answered a content id, the metadata upload
\* failed, and the image is stored.
C16_Witness ==
  /\ BuildCompleteRun
  /\ pc = "failed"
  /\ hist.failedCall = "metadataPost"
  /\ answered.image = Str("QmA")
  /\ stored = {Blob("image", up.fileName, Str("QmA"))}

\* C17: in the result of a build_complete run that reaches Done,
\* generatedPrompt is present exactly when the image was resolved by the
\* generation stage, and is then the prompt the provider echoed; it is
\* absent when the image came from a supplied imageUrl or imagePath.
C17_GeneratedPromptOnlyFromGeneration ==
  (BuildCompleteRun /\ pc = "done") =>
    /\ "generatedPrompt" \in DOMAIN outcome.result <=> calls.generate = 1
    /\ calls.generate = 1 => Get(outcome.result, "generatedPrompt") = answered.prompt
    /\ ~Supplied(args.prompt) => "generatedPrompt" \notin DOMAIN outcome.result

\* C17 witness: a run that generated its image is Done and its result
\* carries the echoed prompt, which is not the prompt of the request.
C17_Witness ==
  /\ BuildCompleteRun
  /\ pc = "done"
  /\ calls.generate = 1
  /\ Get(outcome.result, "generatedPrompt") = Str("a red fox, detailed")
  /\ args.prompt # Str("a red fox, detailed")

\* The external call a run waits for, and the stage it is in while waiting:
\* ResolvingImage, UploadingImage (fetch and upload), BuildingMetadata.
Awaits == {"awaitGenerate", "awaitFetch", "awaitImagePost", "awaitMetadataPost"}
AwaitedCall(at) ==
  CASE at = "awaitGenerate" -> "generate"
    [] at = "awaitFetch" -> "fetch"
    [] at = "awaitImagePost" -> "imagePost"
    [] at = "awaitMetadataPost" -> "metadataPost"
StageAt(at) ==
  CASE at = "awaitGenerate" -> "resolve"
    [] at \in {"awaitFetch", "awaitImagePost"} -> "image-upload"
    [] at = "awaitMetadataPost" -> "metadata-upload"
Terminal == pc \in {"done", "failed"}

\* C18: every build_complete run, provided each external call it issues
\* eventually returns or fails, eventually reaches exactly one of the terminal
\* states Done and Failed and stays there, so it stays in no waiting stage
\* forever; and when an external call fails, Failed is entered at the stage
\* that issued the call.
C18_RunTerminates ==
  /\ Started ~> Terminal
  /\ [][Terminal => pc' = pc]_vars
  /\ [][(BuildCompleteRun /\ pc' = "failed" /\ hist'.failedCall \in ExternalCalls) =>
          (pc \in Awaits /\ hist'.failedCall = AwaitedCall(pc) /\ hist'.stage = StageAt(pc))]_vars

\* C18 witness: a run that went through generation, fetch and image upload
\* failed in the metadata stage, on the metadata upload.
C18_Witness ==
  /\ BuildCompleteRun
  /\ pc = "failed"
  /\ calls.generate = 1 /\ calls.fetch = 1 /\ calls.imagePost = 1 /\ calls.metadataPost = 1
  /\ hist.failedCall = "metadataPost"
  /\ hist.stage = "metadata-upload"

\* C19: whenever the build_complete orchestrator invokes the storage upload
\* for the image, it passes exactly one of a URL and a local path, never
\* both, for every accepted request and every successful generation result.
C19_ExactlyOneOfUrlAndPath ==
  (BuildCompleteRun /\ up # NoUpload) =>
    (Supplied(up.imageUrl) <=> ~Supplied(up.imagePath))

====
